---- MODULE Spec2Model ----
(***************************************************************************)
(* A model of the Mandelbrot renderer of src/main.rs: the pair parser, the *)
(* pixel-to-point mapper, the escape-time evaluator, the band renderer and *)
(* the driver (main) that partitions the pixel buffer into bands and       *)
(* renders them on crossbeam scoped threads.                               *)
(*                                                                         *)
(* f64 is modelled as a binary floating-point format of MantBits           *)
(* significant bits whose values are multiples of 2^-FracBits, every       *)
(* operation rounded to nearest, ties to even, as IEEE 754 does.  A value  *)
(* v is held as the integer v * 2^FracBits.  Infinities and NaN are not    *)
(* modelled: the inputs are finite and far from the overflow threshold.    *)
(* usize is modelled by the naturals: the dimensions are far from 2^64.    *)
(***************************************************************************)
EXTENDS Integers, Sequences, FiniteSets, TLC

VARIABLES
    argv,          \* main: the command line, args[0] (the program name) included
    pc,            \* main: the driver's position
    bounds,        \* main: the parsed image dimensions <<W, H>>
    upper_left,    \* main: the parsed upper-left corner
    lower_right,   \* main: the parsed lower-right corner
    threads,       \* main: the parsed worker count
    pixels,        \* main: the pixel buffer (index i of the code is i + 1 here)
    bands,         \* main: the chunks of the buffer, each [start, len]
    workers,       \* the scoped threads spawned so far: the render call of each
    main_render,   \* the render call of the sequential path
    writes,        \* history: per pixel index, the renderers that wrote it, in order
    file_created,  \* whether write_bitmap created the output file
    exit_status,   \* the process exit status once it ended (-1 before)
    call,          \* the pure-function harnesses: the call under evaluation
    ret            \* the pure-function harnesses: its result

vars == <<argv, pc, bounds, upper_left, lower_right, threads, pixels, bands,
          workers, main_render, writes, file_created, exit_status, call, ret>>

mainVars == <<argv, pc, bounds, upper_left, lower_right, threads, pixels, bands,
              workers, main_render, writes, file_created, exit_status>>

(***************************************************************************)
(* Bounds of the model.                                                    *)
(***************************************************************************)
MantBits == 8
FracBits == 10
MaxW == 2
MaxH == 6
MaxT == 4
MaxStrLen == 3
MaxMapDim == 3
MaxLimit == 3

(***************************************************************************)
(* f64 arithmetic.                                                         *)
(***************************************************************************)
RECURSIVE Pow2(_)
Pow2(k) == IF k = 0 THEN 1 ELSE 2 * Pow2(k - 1)

Scale == Pow2(FracBits)

Abs(n) == IF n < 0 THEN 0 - n ELSE n

\* 2^MantBits: the significands are the integers below it.
MantLimit == Pow2(MantBits)

\* The quantum of n/den (n >= 0, den > 0): 2^k for the least k >= 0 with
\* n/den < 2^(MantBits + k); call it with lim = den * 2^MantBits and q = 1.
RECURSIVE Quantum(_, _, _)
Quantum(n, lim, q) == IF n < lim THEN q ELSE Quantum(n, 2 * lim, 2 * q)

\* num/den (den > 0), in units of 2^-FracBits, rounded to the nearest value of
\* MantBits significant bits, ties to even.
RoundRat(num, den) ==
    LET n == Abs(num)
        D == den * Quantum(n, den * MantLimit, 1)
        q == n \div D
        r == n % D
        up == (2 * r > D) \/ (2 * r = D /\ q % 2 = 1)
        m == (IF up THEN q + 1 ELSE q) * (D \div den)
    IN  IF num < 0 THEN 0 - m ELSE m

F64Add(a, b) == RoundRat(a + b, 1)
F64Sub(a, b) == RoundRat(a - b, 1)
F64Mul(a, b) == RoundRat(a * b, Scale)
\* a / b for b # 0 (the callers divide by a positive dimension).
F64Div(a, b) == IF b > 0 THEN RoundRat(a * Scale, b) ELSE RoundRat((0 - a) * Scale, 0 - b)
\* n as f64
F64FromUsize(n) == RoundRat(n * Scale, 1)
\* the literal of an integer
F64Lit(n) == n * Scale

(***************************************************************************)
(* escapes (num::Complex<f64> arithmetic written out).                     *)
(***************************************************************************)
Complex(re, im) == [re |-> re, im |-> im]

ComplexMul(a, b) ==
    Complex(F64Sub(F64Mul(a.re, b.re), F64Mul(a.im, b.im)),
            F64Add(F64Mul(a.re, b.im), F64Mul(a.im, b.re)))

ComplexAdd(a, b) == Complex(F64Add(a.re, b.re), F64Add(a.im, b.im))

norm_sqr(z) == F64Add(F64Mul(z.re, z.re), F64Mul(z.im, z.im))

None == [some |-> FALSE, val |-> 0]
Some(v) == [some |-> TRUE, val |-> v]

\* The loop state of escapes: z, the iteration i about to run, and the value
\* returned so far (None while the loop runs).
LoopStart == [z |-> Complex(0, 0), i |-> 0, res |-> None]

\* LoopBody with the iterations counted from 1.
LoopBodyCountsFromOne(st, c) ==
    LET z1 == ComplexAdd(ComplexMul(st.z, st.z), c)
    IN  IF norm_sqr(z1) > F64Lit(4)
        THEN [z |-> z1, i |-> st.i, res |-> Some(st.i + 1)]
        ELSE [z |-> z1, i |-> st.i + 1, res |-> None]

\* One iteration of the for loop: z = z * z + c; if z.norm_sqr() > 4.0, return Some(i).
LoopBody(st, c) ==
    LET z1 == ComplexAdd(ComplexMul(st.z, st.z), c)
    IN  IF norm_sqr(z1) > F64Lit(4)
        THEN [z |-> z1, i |-> st.i, res |-> Some(st.i)]
        ELSE [z |-> z1, i |-> st.i + 1, res |-> None]

\* n further iterations from st, stopping at the first return.  The iterations
\* run in order; they are split in halves only to keep the evaluation shallow.
RECURSIVE Loop(_, _, _)
Loop(st, c, n) ==
    IF n = 0 \/ st.res.some THEN st
    ELSE IF n = 1 THEN LoopBody(st, c)
    ELSE LET half == Loop(st, c, n \div 2)
         IN  Loop(half, c, n - n \div 2)

escapes(c, limit) == Loop(LoopStart, c, limit).res

RenderLimit == 255

\* count as u8
AsU8(n) == n % 256

\* 255 - count as u8, in u8 arithmetic (a negative difference is an overflow:
\* a panic with overflow checks, a wrap-around without; -1 stands for it).
U8Sub(a, b) == IF a - b < 0 THEN 0 - 1 ELSE a - b

\* The match of render: the intensity stored for an escape result.
Intensity(e) == IF e.some THEN U8Sub(255, AsU8(e.val)) ELSE 0

(***************************************************************************)
(* pixel_to_point                                                          *)
(***************************************************************************)
Point(x, y) == [x |-> x, y |-> y]

\* pixel_to_point with the imaginary part growing down the rows.
pixel_to_point_flipped(bnds, p, ul, lr) ==
    LET width == F64Sub(lr.x, ul.x)
        height == F64Sub(ul.y, lr.y)
    IN  Point(F64Add(ul.x, F64Div(F64Mul(F64FromUsize(p[1]), width), F64FromUsize(bnds[1]))),
              F64Add(ul.y, F64Div(F64Mul(F64FromUsize(p[2]), height), F64FromUsize(bnds[2]))))

pixel_to_point(bnds, p, ul, lr) ==
    LET width == F64Sub(lr.x, ul.x)
        height == F64Sub(ul.y, lr.y)
    IN  Point(F64Add(ul.x, F64Div(F64Mul(F64FromUsize(p[1]), width), F64FromUsize(bnds[1]))),
              F64Sub(ul.y, F64Div(F64Mul(F64FromUsize(p[2]), height), F64FromUsize(bnds[2]))))

(***************************************************************************)
(* render.  A call of render is a record: the slice it was given (its      *)
(* start in the buffer and its length), its bounds and corners, and its    *)
(* position: at the assertion, in the loops before pixel (c, r), returned, *)
(* or panicked.                                                            *)
(***************************************************************************)
RenderCall(start, len, bnds, ul, lr) ==
    [pc |-> "assert", start |-> start, len |-> len, bounds |-> bnds,
     upper_left |-> ul, lower_right |-> lr, r |-> 0, c |-> 0]

NoRender == [pc |-> "none", start |-> 0, len |-> 0, bounds |-> <<0, 0>>,
             upper_left |-> Point(0, 0), lower_right |-> Point(0, 0), r |-> 0, c |-> 0]

\* assert!(pixels.len() == bounds.0 * bounds.1), then into the loops, which run
\* no iteration when a dimension is 0.
RenderAssert(fr) ==
    [fr EXCEPT !.pc = IF fr.len # fr.bounds[1] * fr.bounds[2] THEN "panicked"
                      ELSE IF fr.bounds[1] = 0 \/ fr.bounds[2] = 0 THEN "done"
                      ELSE "loop"]

\* PixelIndex without the column.
PixelIndexRowOnly(fr) == fr.r * fr.bounds[1]

\* r * bounds.0 + c, the index written in the slice
PixelIndex(fr) == fr.r * fr.bounds[1] + fr.c

\* The value stored for pixel (c, r) of the call.
RenderedPixel(fr) ==
    LET point == pixel_to_point(fr.bounds, <<fr.c, fr.r>>, fr.upper_left, fr.lower_right)
    IN  Intensity(escapes(Complex(point.x, point.y), RenderLimit))

\* The loop counters after pixel (c, r); the call returns after the last pixel.
RenderAdvance(fr) ==
    LET lastc == fr.c + 1 >= fr.bounds[1]
        r1 == IF lastc THEN fr.r + 1 ELSE fr.r
    IN  [fr EXCEPT !.c = IF lastc THEN 0 ELSE fr.c + 1,
                   !.r = r1,
                   !.pc = IF r1 >= fr.bounds[2] THEN "done" ELSE "loop"]

\* One iteration of the inner loop: an index outside the slice panics, any
\* other is written.
RenderStepCall(fr) ==
    IF PixelIndex(fr) >= fr.len THEN [fr EXCEPT !.pc = "panicked"] ELSE RenderAdvance(fr)

RenderStepPixels(fr, px) ==
    IF PixelIndex(fr) >= fr.len THEN px
    ELSE [px EXCEPT ![fr.start + PixelIndex(fr) + 1] = RenderedPixel(fr)]

RenderStepWrites(fr, id, wr) ==
    IF PixelIndex(fr) >= fr.len THEN wr
    ELSE [wr EXCEPT ![fr.start + PixelIndex(fr) + 1] = Append(@, id)]

(***************************************************************************)
(* Strings are sequences of one-character strings.  FromStr models         *)
(* T::from_str for the three element types main and the tests use.  The    *)
(* kind carried by a ParseIntError / ParseFloatError is not modelled, and  *)
(* the strings are short enough for every integer to fit its type.         *)
(***************************************************************************)
Digits == <<"0", "1", "2", "3", "4", "5", "6", "7", "8", "9">>

IsDigit(ch) == \E d \in 1..10 : Digits[d] = ch

DigitVal(ch) == (CHOOSE d \in 1..10 : Digits[d] = ch) - 1

AllDigits(s) == \A i \in 1..Len(s) : IsDigit(s[i])

RECURSIVE Pow10(_)
Pow10(k) == IF k = 0 THEN 1 ELSE 10 * Pow10(k - 1)

\* The value of a sequence of decimal digits.
RECURSIVE DecVal(_)
DecVal(s) == IF s = <<>> THEN 0 ELSE 10 * DecVal(SubSeq(s, 1, Len(s) - 1)) + DigitVal(s[Len(s)])

Tail1(s) == SubSeq(s, 2, Len(s))

ParseOk(v) == [ok |-> TRUE, val |-> v]
ParseErr == [ok |-> FALSE, val |-> 0]

\* i32::from_str / usize::from_str: an optional sign ('-' for the signed type
\* only), then one or more decimal digits.
IntFromStr(s, signed) ==
    IF s = <<>> THEN ParseErr
    ELSE LET neg == signed /\ s[1] = "-"
             digits == IF s[1] = "+" \/ neg THEN Tail1(s) ELSE s
         IN  IF digits = <<>> \/ ~AllDigits(digits) THEN ParseErr
             ELSE ParseOk(IF neg THEN 0 - DecVal(digits) ELSE DecVal(digits))

\* f64::from_str on strings without exponent, "inf" or "nan": an optional sign,
\* then digits with at most one '.', at least one digit in all; the value is the
\* decimal correctly rounded.
F64FromStr(s) ==
    IF s = <<>> THEN ParseErr
    ELSE LET neg == s[1] = "-"
             body == IF s[1] = "+" \/ neg THEN Tail1(s) ELSE s
             dots == {i \in 1..Len(body) : body[i] = "."}
             dot == IF dots = {} THEN Len(body) + 1 ELSE CHOOSE i \in dots : TRUE
             int == SubSeq(body, 1, dot - 1)
             frac == SubSeq(body, dot + 1, Len(body))
         IN  IF Cardinality(dots) > 1 \/ ~AllDigits(int) \/ ~AllDigits(frac)
                \/ (int = <<>> /\ frac = <<>>)
             THEN ParseErr
             ELSE LET v == RoundRat(DecVal(int \o frac) * Scale, Pow10(Len(frac)))
                  IN  ParseOk(IF neg THEN 0 - v ELSE v)

FromStr(ty, s) ==
    CASE ty = "i32" -> IntFromStr(s, TRUE)
      [] ty = "usize" -> IntFromStr(s, FALSE)
      [] OTHER -> F64FromStr(s)

(***************************************************************************)
(* parse_pair                                                              *)
(***************************************************************************)
Ok(v) == [tag |-> "Ok", val |-> v]
NoDelimiter == [tag |-> "NoDelimiter", val |-> <<>>]
ParseElementError == [tag |-> "ParseElementError", val |-> <<>>]

\* s.find(separator): the position of the first occurrence (1-based), 0 for None.
RECURSIVE FindFrom(_, _, _)
FindFrom(s, separator, i) ==
    IF i > Len(s) THEN 0
    ELSE IF s[i] = separator THEN i ELSE FindFrom(s, separator, i + 1)

Find(s, separator) == FindFrom(s, separator, 1)

\* RightOf keeping the separator: &s[index..]
RightOfKeepsSeparator(s, index) == SubSeq(s, index, Len(s))

\* &s[index + 1..]
RightOf(s, index) == SubSeq(s, index + 1, Len(s))

\* &s[..index]
LeftOf(s, index) == SubSeq(s, 1, index - 1)

parse_pair(ty, s, separator) ==
    LET index == Find(s, separator)
    IN  IF index = 0 THEN NoDelimiter
        ELSE LET e1 == FromStr(ty, LeftOf(s, index))
                 e2 == FromStr(ty, RightOf(s, index))
             IN  IF ~e1.ok THEN ParseElementError
                 ELSE IF ~e2.ok THEN ParseElementError
                 ELSE Ok(<<e1.val, e2.val>>)

(***************************************************************************)
(* The state of main while a pure function is evaluated on its own.        *)
(***************************************************************************)
MainIdle ==
    /\ argv = <<>>
    /\ pc = "idle"
    /\ bounds = <<0, 0>>
    /\ upper_left = Point(0, 0)
    /\ lower_right = Point(0, 0)
    /\ threads = 0
    /\ pixels = <<>>
    /\ bands = <<>>
    /\ workers = <<>>
    /\ main_render = NoRender
    /\ writes = <<>>
    /\ file_created = FALSE
    /\ exit_status = 0 - 1

(***************************************************************************)
(* escapes on its own: every c of a grid and every small limit, and the    *)
(* limit render passes; then the intensity render stores for the result.   *)
(***************************************************************************)
MaxQuarter == 9

\* The coordinates tried: the multiples of 1/4 up to MaxQuarter/4 in magnitude,
\* and the smallest positive values of the format.
EscCoords == {k * (Scale \div 4) : k \in (0 - MaxQuarter)..MaxQuarter} \cup {0 - 2, 0 - 1, 1, 2}

EscLimits == 0..MaxLimit \cup {RenderLimit}

InitEsc ==
    /\ MainIdle
    /\ call \in {[fn |-> "escapes", c |-> Complex(re, im), limit |-> l] :
                    re \in EscCoords, im \in EscCoords, l \in EscLimits}
    /\ ret = <<>>

EvalEscapes ==
    /\ call.fn = "escapes"
    /\ ret = <<>>
    /\ ret' = <<escapes(call.c, call.limit)>>
    /\ UNCHANGED <<call, mainVars>>

\* The match of render (limit 255) on the result.
EvalIntensity ==
    /\ call.fn = "escapes"
    /\ call.limit = RenderLimit
    /\ Len(ret) = 1
    /\ ret' = <<ret[1], Intensity(ret[1])>>
    /\ UNCHANGED <<call, mainVars>>

NextEsc == EvalEscapes \/ EvalIntensity

SpecEsc == InitEsc /\ [][NextEsc]_vars

(***************************************************************************)
(* pixel_to_point on its own.                                              *)
(***************************************************************************)
\* The spacing of the format's values in [1, 2).
Ulp1 == Pow2(FracBits - MantBits + 1)

\* The corner coordinates tried: -2, -1, 1, 2, and the value next above 1.
CornerVals == {F64Lit(0 - 2), F64Lit(0 - 1), F64Lit(1), F64Lit(1) + Ulp1, F64Lit(2)}

MapCalls ==
    {[fn |-> "pixel_to_point", bounds |-> <<w, h>>, p |-> <<px, py>>,
      upper_left |-> Point(ulx, uly), lower_right |-> Point(lrx, lry)] :
        w \in 1..MaxMapDim, h \in 1..MaxMapDim, px \in 0..MaxMapDim, py \in 0..MaxMapDim,
        ulx \in CornerVals, uly \in CornerVals, lrx \in CornerVals, lry \in CornerVals}

\* The call of test_pixel_to_point.
MapTestCall ==
    [fn |-> "pixel_to_point", bounds |-> <<100, 100>>, p |-> <<25, 75>>,
     upper_left |-> Point(F64Lit(0 - 1), F64Lit(1)),
     lower_right |-> Point(F64Lit(1), F64Lit(0 - 1))]

InitMap ==
    /\ MainIdle
    /\ call \in {c \in MapCalls : c.p[1] <= c.bounds[1] /\ c.p[2] <= c.bounds[2]} \cup {MapTestCall}
    /\ ret = <<>>

EvalMap ==
    /\ call.fn = "pixel_to_point"
    /\ ret = <<>>
    /\ ret' = <<pixel_to_point(call.bounds, call.p, call.upper_left, call.lower_right)>>
    /\ UNCHANGED <<call, mainVars>>

NextMap == EvalMap

SpecMap == InitMap /\ [][NextMap]_vars

(***************************************************************************)
(* parse_pair on its own: every string of at most MaxStrLen characters of  *)
(* Alphabet, and the strings of test_parse_pair.                           *)
(***************************************************************************)
Alphabet == {"0", "1", ",", "x", "-", "."}

Strings(n) == UNION {[1..k -> Alphabet] : k \in 0..n}

TestStrings ==
    { <<>>,
      <<"1", "0">>,
      <<",", "1", "0">>,
      <<"1", "0", ",", "2", "0">>,
      <<"1", "0", ",", "2", "0", "x", "y">>,
      <<"0", ".", "5", "x">>,
      <<"0", ".", "5", "x", "1", ".", "5">> }

ElementTypes == {"i32", "usize", "f64"}

InitParse ==
    /\ MainIdle
    /\ call \in {[fn |-> "parse_pair", ty |-> ty, s |-> s, separator |-> sep] :
                    ty \in ElementTypes, s \in Strings(MaxStrLen) \cup TestStrings,
                    sep \in {",", "x"}}
    /\ ret = <<>>

EvalParse ==
    /\ call.fn = "parse_pair"
    /\ ret = <<>>
    /\ ret' = <<parse_pair(call.ty, call.s, call.separator)>>
    /\ UNCHANGED <<call, mainVars>>

NextParse == EvalParse

SpecParse == InitParse /\ [][NextParse]_vars

(***************************************************************************)
(* main: the driver.                                                       *)
(***************************************************************************)
\* The decimal string of a one-digit number.
Str(n) == <<Digits[n + 1]>>

ProgArg == <<"m">>
FileArg == <<"o">>

\* The <pixels> arguments tried: every WxH within the bounds, one without the
\* separator and one with a malformed element.
DimArgs == {Str(w) \o <<"x">> \o Str(h) : w \in 0..MaxW, h \in 0..MaxH}
               \cup {<<"2">>, <<"x", "2">>}

UpperLeftArgs == {<<"-", "2", ",", "1">>, <<"-", "2">>}

LowerRightArgs == {<<"-", "1", ".", "7", "5", ",", "-", "1">>, <<"1", ",">>}

ThreadArgs == {Str(n) : n \in 0..MaxT} \cup {<<"x">>}

\* The command lines tried: five arguments, and four (the last one missing).
CommandLines ==
    {<<ProgArg, FileArg, d, ul, lr, n>> :
        d \in DimArgs, ul \in UpperLeftArgs, lr \in LowerRightArgs, n \in ThreadArgs}
    \cup {<<ProgArg, FileArg, d, ul, lr>> :
        d \in DimArgs, ul \in UpperLeftArgs, lr \in LowerRightArgs}

Init ==
    /\ argv \in CommandLines
    /\ pc = "start"
    /\ bounds = <<0, 0>>
    /\ upper_left = Point(0, 0)
    /\ lower_right = Point(0, 0)
    /\ threads = 0
    /\ pixels = <<>>
    /\ bands = <<>>
    /\ workers = <<>>
    /\ main_render = NoRender
    /\ writes = <<>>
    /\ file_created = FALSE
    /\ exit_status = 0 - 1
    /\ call = [fn |-> "main"]
    /\ ret = <<>>

\* ArgCountWrong without counting the program name.
ArgCountWrongNoProgram(args) == Len(args) # 5

\* args.len() != 6
ArgCountWrong(args) == Len(args) # 6

\* if args.len() != 6 { ...; std::process::exit(1) }
CheckArgs ==
    /\ pc = "start"
    /\ pc' = IF ArgCountWrong(argv) THEN "exited" ELSE "parse_bounds"
    /\ exit_status' = IF ArgCountWrong(argv) THEN 1 ELSE exit_status
    /\ UNCHANGED <<argv, bounds, upper_left, lower_right, threads, pixels, bands,
                   workers, main_render, writes, file_created, call, ret>>

\* parse_pair(&args[2], 'x').expect(..)
ParseBounds ==
    /\ pc = "parse_bounds"
    /\ LET r == parse_pair("usize", argv[3], "x")
       IN  /\ pc' = IF r.tag = "Ok" THEN "parse_upper_left" ELSE "panicked"
           /\ bounds' = IF r.tag = "Ok" THEN r.val ELSE bounds
           /\ exit_status' = IF r.tag = "Ok" THEN exit_status ELSE 101
    /\ UNCHANGED <<argv, upper_left, lower_right, threads, pixels, bands,
                   workers, main_render, writes, file_created, call, ret>>

\* parse_pair(&args[3], ',').expect(..)
ParseUpperLeft ==
    /\ pc = "parse_upper_left"
    /\ LET r == parse_pair("f64", argv[4], ",")
       IN  /\ pc' = IF r.tag = "Ok" THEN "parse_lower_right" ELSE "panicked"
           /\ upper_left' = IF r.tag = "Ok" THEN Point(r.val[1], r.val[2]) ELSE upper_left
           /\ exit_status' = IF r.tag = "Ok" THEN exit_status ELSE 101
    /\ UNCHANGED <<argv, bounds, lower_right, threads, pixels, bands,
                   workers, main_render, writes, file_created, call, ret>>

\* parse_pair(&args[4], ',').expect(..)
ParseLowerRight ==
    /\ pc = "parse_lower_right"
    /\ LET r == parse_pair("f64", argv[5], ",")
       IN  /\ pc' = IF r.tag = "Ok" THEN "alloc" ELSE "panicked"
           /\ lower_right' = IF r.tag = "Ok" THEN Point(r.val[1], r.val[2]) ELSE lower_right
           /\ exit_status' = IF r.tag = "Ok" THEN exit_status ELSE 101
    /\ UNCHANGED <<argv, bounds, upper_left, threads, pixels, bands,
                   workers, main_render, writes, file_created, call, ret>>

\* vec![0; bounds.0 * bounds.1]
AllocPixels ==
    /\ pc = "alloc"
    /\ pixels' = [i \in 1..(bounds[1] * bounds[2]) |-> 0]
    /\ writes' = [i \in 1..(bounds[1] * bounds[2]) |-> <<>>]
    /\ pc' = "parse_threads"
    /\ UNCHANGED <<argv, bounds, upper_left, lower_right, threads, bands,
                   workers, main_render, file_created, exit_status, call, ret>>

\* usize::from_str(&args[5]).expect(..), then the test threads > 1
ParseThreads ==
    /\ pc = "parse_threads"
    /\ LET r == FromStr("usize", argv[6])
       IN  /\ pc' = IF ~r.ok THEN "panicked" ELSE IF r.val > 1 THEN "chunk" ELSE "sequential"
           /\ threads' = IF r.ok THEN r.val ELSE threads
           /\ exit_status' = IF r.ok THEN exit_status ELSE 101
    /\ UNCHANGED <<argv, bounds, upper_left, lower_right, pixels, bands,
                   workers, main_render, writes, file_created, call, ret>>

\* BandRows without the extra row.
BandRowsFloor(h, n) == h \div n

\* bounds.1 / threads + 1
BandRows(h, n) == h \div n + 1

Min(a, b) == IF a < b THEN a ELSE b

\* ChunksMut without the shorter last chunk (chunks_exact_mut).
ChunksExact(n, size) ==
    [k \in 1..(n \div size) |-> [start |-> (k - 1) * size, len |-> size]]

\* slice.chunks_mut(size) of a slice of n elements, size > 0: consecutive chunks
\* of size elements, the last one holding what is left.
ChunksMut(n, size) ==
    [k \in 1..((n + size - 1) \div size) |->
        [start |-> (k - 1) * size, len |-> Min(size, n - (k - 1) * size)]]

\* let band_rows = ..; let bands = pixels.chunks_mut(band_rows * bounds.0).collect();
\* chunks_mut panics on a chunk size of 0.
Chunk ==
    /\ pc = "chunk"
    /\ LET size == BandRows(bounds[2], threads) * bounds[1]
       IN  /\ pc' = IF size = 0 THEN "panicked" ELSE "spawn"
           /\ bands' = IF size = 0 THEN bands ELSE ChunksMut(Len(pixels), size)
           /\ exit_status' = IF size = 0 THEN 101 ELSE exit_status
    /\ UNCHANGED <<argv, bounds, upper_left, lower_right, threads, pixels,
                   workers, main_render, writes, file_created, call, ret>>

\* band_rows * i, for the band at position i (from 0)
BandTop(i) == BandRows(bounds[2], threads) * i

\* BandHeight taking every band for a full one.
BandHeightFull(band) == BandRows(bounds[2], threads)

\* band.len() / bounds.0
BandHeight(band) == band.len \div bounds[1]

\* The render call the closure of band i (from 0) makes.
BandRender(i) ==
    LET band == bands[i + 1]
        top == BandTop(i)
        height == BandHeight(band)
        band_bounds == <<bounds[1], height>>
        band_upper_left == pixel_to_point(bounds, <<0, top>>, upper_left, lower_right)
        band_lower_right == pixel_to_point(bounds, <<bounds[1], top + height>>,
                                           upper_left, lower_right)
    IN  RenderCall(band.start, band.len, band_bounds, band_upper_left, band_lower_right)

\* One iteration of the for loop over the bands: scope.spawn(..)
Spawn ==
    /\ pc = "spawn"
    /\ Len(workers) < Len(bands)
    /\ workers' = Append(workers, BandRender(Len(workers)))
    /\ UNCHANGED <<argv, pc, bounds, upper_left, lower_right, threads, pixels, bands,
                   main_render, writes, file_created, exit_status, call, ret>>

\* A spawned thread enters render.
WorkerAssert(i) ==
    /\ workers[i].pc = "assert"
    /\ workers' = [workers EXCEPT ![i] = RenderAssert(@)]
    /\ UNCHANGED <<argv, pc, bounds, upper_left, lower_right, threads, pixels, bands,
                   main_render, writes, file_created, exit_status, call, ret>>

\* A spawned thread renders its next pixel.
WorkerPixel(i) ==
    /\ workers[i].pc = "loop"
    /\ pixels' = RenderStepPixels(workers[i], pixels)
    /\ writes' = RenderStepWrites(workers[i], i, writes)
    /\ workers' = [workers EXCEPT ![i] = RenderStepCall(@)]
    /\ UNCHANGED <<argv, pc, bounds, upper_left, lower_right, threads, bands,
                   main_render, file_created, exit_status, call, ret>>

\* AllJoined for a scope that does not wait.
NoJoin == TRUE

\* What crossbeam::scope waits for before it returns: every thread spawned in
\* the scope has ended.
AllJoined == \A i \in 1..Len(workers) : workers[i].pc \in {"done", "panicked"}

\* The end of crossbeam::scope: the closure has spawned every band; the scope
\* joins the threads, and panics if one of them did.
ScopeEnd ==
    /\ pc = "spawn"
    /\ Len(workers) = Len(bands)
    /\ AllJoined
    /\ LET failed == \E i \in 1..Len(workers) : workers[i].pc = "panicked"
       IN  /\ pc' = IF failed THEN "panicked" ELSE "write"
           /\ exit_status' = IF failed THEN 101 ELSE exit_status
    /\ UNCHANGED <<argv, bounds, upper_left, lower_right, threads, pixels, bands,
                   workers, main_render, writes, file_created, call, ret>>

\* The sequential path: render(&mut pixels, bounds, &upper_left, &lower_right)
SeqCall ==
    /\ pc = "sequential"
    /\ main_render' = RenderCall(0, Len(pixels), bounds, upper_left, lower_right)
    /\ pc' = "render"
    /\ UNCHANGED <<argv, bounds, upper_left, lower_right, threads, pixels, bands,
                   workers, writes, file_created, exit_status, call, ret>>

SeqAssert ==
    /\ pc = "render"
    /\ main_render.pc = "assert"
    /\ main_render' = RenderAssert(main_render)
    /\ UNCHANGED <<argv, pc, bounds, upper_left, lower_right, threads, pixels, bands,
                   workers, writes, file_created, exit_status, call, ret>>

SeqPixel ==
    /\ pc = "render"
    /\ main_render.pc = "loop"
    /\ pixels' = RenderStepPixels(main_render, pixels)
    /\ writes' = RenderStepWrites(main_render, 0, writes)
    /\ main_render' = RenderStepCall(main_render)
    /\ UNCHANGED <<argv, pc, bounds, upper_left, lower_right, threads, bands,
                   workers, file_created, exit_status, call, ret>>

SeqReturn ==
    /\ pc = "render"
    /\ main_render.pc \in {"done", "panicked"}
    /\ pc' = IF main_render.pc = "done" THEN "write" ELSE "panicked"
    /\ exit_status' = IF main_render.pc = "done" THEN exit_status ELSE 101
    /\ UNCHANGED <<argv, bounds, upper_left, lower_right, threads, pixels, bands,
                   workers, main_render, writes, file_created, call, ret>>

\* write_bitmap(..).expect(..): File::create may fail, and so may the encoder
\* once the file exists.
WriteOutcomes == {"ok", "create failed", "encode failed"}

WriteBitmap ==
    /\ pc = "write"
    /\ \E outcome \in WriteOutcomes :
        /\ file_created' = (outcome # "create failed")
        /\ pc' = IF outcome = "ok" THEN "done" ELSE "panicked"
        /\ exit_status' = IF outcome = "ok" THEN 0 ELSE 101
    /\ UNCHANGED <<argv, bounds, upper_left, lower_right, threads, pixels, bands,
                   workers, main_render, writes, call, ret>>

Next ==
    \/ CheckArgs
    \/ ParseBounds
    \/ ParseUpperLeft
    \/ ParseLowerRight
    \/ AllocPixels
    \/ ParseThreads
    \/ Chunk
    \/ Spawn
    \/ \E i \in 1..Len(workers) : WorkerAssert(i)
    \/ \E i \in 1..Len(workers) : WorkerPixel(i)
    \/ ScopeEnd
    \/ SeqCall
    \/ SeqAssert
    \/ SeqPixel
    \/ SeqReturn
    \/ WriteBitmap

Spec == Init /\ [][Next]_vars

(***************************************************************************)
(* Properties of the driver, checked under Spec.                           *)
(***************************************************************************)
\* The parallel path has chunked the buffer.
Chunked == threads > 1 /\ pc \in {"spawn", "write", "done"}

\* The driver has reached write_bitmap: the encoder reads the buffer from here on.
Encoding == pc \in {"write", "done"} \/ file_created

\* The bands that hold index idx (from 0) of the buffer.
BandsHolding(idx) ==
    {k \in 1..Len(bands) : bands[k].start <= idx /\ idx < bands[k].start + bands[k].len}

\* C1: for any bounds (W, H) and worker count T > 1, the bands the driver gets by
\* chunking the buffer into pieces of (H/T + 1) * W elements cover [0, W*H)
\* exactly: every index lies in exactly one band, every band lies in the
\* buffer, and every band but the last has the full chunk length.
C1_BandsPartitionBuffer ==
    Chunked =>
        /\ Len(pixels) = bounds[1] * bounds[2]
        /\ \A idx \in 0..(Len(pixels) - 1) : Cardinality(BandsHolding(idx)) = 1
        /\ \A k \in 1..Len(bands) :
            /\ bands[k].start >= 0
            /\ bands[k].len >= 1
            /\ bands[k].start + bands[k].len <= Len(pixels)
            /\ bands[k].len <= (bounds[2] \div threads + 1) * bounds[1]
            /\ k < Len(bands) => bands[k].len = (bounds[2] \div threads + 1) * bounds[1]

\* C1's case: a buffer chunked into three bands or more, the last one shorter.
C1_Witness ==
    /\ Chunked
    /\ Len(bands) >= 3
    /\ bands[Len(bands)].len < bands[1].len

\* What the sequential path leaves in the buffer for the same bounds and viewport:
\* render on the full bounds and corners.
SequentialPixels ==
    [idx \in 1..(bounds[1] * bounds[2]) |->
        RenderedPixel([RenderCall(0, bounds[1] * bounds[2], bounds, upper_left, lower_right)
                          EXCEPT !.r = (idx - 1) \div bounds[1], !.c = (idx - 1) % bounds[1]])]

\* C2: the buffer the parallel path hands to the encoder is pixel-for-pixel the
\* buffer the sequential path leaves for the same bounds and viewport, under
\* every interleaving of the workers.
C2_ParallelEqualsSequential ==
    (threads > 1 /\ pc \in {"write", "done"}) => pixels = SequentialPixels

\* C3: in the parallel path the driver never reaches write_bitmap while a
\* spawned band worker has not finished its render.
C3_JoinBeforeEncode ==
    (threads > 1 /\ Encoding) =>
        /\ Len(workers) = Len(bands)
        /\ \A i \in 1..Len(workers) : workers[i].pc = "done"

\* C3's case: the driver at write_bitmap after a scope of two workers or more.
C3_Witness ==
    /\ threads > 1
    /\ pc = "write"
    /\ Len(workers) >= 2

\* C4: no pixel index is ever written twice; a band worker writes only indices
\* of its own band, and the sequential path writes from main only; once the
\* driver has reached the encoder, every index has been written exactly once.
C4_EachPixelWrittenOnce ==
    /\ \A idx \in 1..Len(writes) :
        /\ Len(writes[idx]) <= 1
        /\ \A n \in 1..Len(writes[idx]) :
            LET id == writes[idx][n]
            IN  IF threads > 1
                THEN id \in 1..Len(workers) /\ id \in BandsHolding(idx - 1)
                ELSE id = 0
    /\ Encoding => \A idx \in 1..Len(writes) : Len(writes[idx]) = 1

\* C4's case: the encoder reached after two workers or more rendered a buffer of
\* at least four pixels.
C4_Witness ==
    /\ threads > 1
    /\ pc = "write"
    /\ Len(workers) >= 2
    /\ Len(pixels) >= 4
    /\ \A idx \in 1..Len(writes) : Len(writes[idx]) = 1

\* C5 as stated: with T > 1 the driver creates exactly T workers, one per band.
C5_ExactlyTWorkers ==
    (threads > 1 /\ pc \in {"write", "done"}) => Len(workers) = threads

CeilDiv(a, b) == (a + b - 1) \div b

\* C5 as amended: with T > 1 the driver creates one worker per band, and the
\* bands number ceil(H / (H/T + 1)), which is at most T.
C5_OneWorkerPerBand ==
    /\ Chunked => Len(workers) <= Len(bands) /\ Len(bands) <= threads
    /\ (threads > 1 /\ pc \in {"write", "done"}) =>
        /\ Len(workers) = Len(bands)
        /\ Len(workers) = CeilDiv(bounds[2], bounds[2] \div threads + 1)

\* C5's case: a finished scope of at least two workers, fewer than T.
C5_Witness ==
    /\ threads > 1
    /\ pc = "write"
    /\ Len(workers) >= 2
    /\ Len(workers) < threads

\* The arguments main parses all parse.
ArgsParse ==
    /\ Len(argv) = 6
    /\ parse_pair("usize", argv[3], "x").tag = "Ok"
    /\ parse_pair("f64", argv[4], ",").tag = "Ok"
    /\ parse_pair("f64", argv[5], ",").tag = "Ok"
    /\ FromStr("usize", argv[6]).ok

NothingRendered ==
    /\ workers = <<>>
    /\ main_render.pc = "none"
    /\ \A idx \in 1..Len(writes) : writes[idx] = <<>>

\* The positions main can be at before it has parsed argument k (3..6) of argv.
PcsBeforeParsed(k) ==
    {"start", "panicked"}
        \cup {"parse_bounds"}
        \cup (IF k > 3 THEN {"parse_upper_left"} ELSE {})
        \cup (IF k > 4 THEN {"parse_lower_right"} ELSE {})
        \cup (IF k > 5 THEN {"alloc", "parse_threads"} ELSE {})

\* C6: the output file is created only when five arguments were given and all of
\* them parsed; a wrong argument count ends the process with exit status 1; a
\* parse failure stops main at that argument with a panic; in both cases nothing
\* is rendered and no file is created.
C6_OutputOnlyOnGoodArgs ==
    /\ file_created => ArgsParse
    /\ Len(argv) # 6 => pc \in {"start", "exited"}
    /\ pc = "exited" => Len(argv) # 6 /\ exit_status = 1
    /\ ~ArgsParse => NothingRendered /\ ~file_created
    /\ (~ArgsParse /\ pc = "panicked") => exit_status = 101
    /\ (Len(argv) = 6 /\ parse_pair("usize", argv[3], "x").tag # "Ok") => pc \in PcsBeforeParsed(3)
    /\ (Len(argv) = 6 /\ parse_pair("f64", argv[4], ",").tag # "Ok") => pc \in PcsBeforeParsed(4)
    /\ (Len(argv) = 6 /\ parse_pair("f64", argv[5], ",").tag # "Ok") => pc \in PcsBeforeParsed(5)
    /\ (Len(argv) = 6 /\ ~FromStr("usize", argv[6]).ok) => pc \in PcsBeforeParsed(6)

\* C6's case: the worker count failed to parse after the buffer was allocated,
\* and main panicked.
C6_Witness ==
    /\ Len(argv) = 6
    /\ ~FromStr("usize", argv[6]).ok
    /\ pc = "panicked"
    /\ Len(pixels) > 0
    /\ ~file_created

\* C10: every band dispatched is a whole number of rows: with height =
\* band.len() / W, band.len() = W * height and 1 <= height <= H/T + 1; its first
\* row in the image is (H/T + 1) * i, the top the driver maps its corner from;
\* only the last band has fewer than H/T + 1 rows; so the assertion of render
\* fails in no worker, nor in the sequential path.
C10_BandsAreWholeRows ==
    /\ \A i \in 1..Len(workers) :
        LET w == workers[i]
            b == bands[i]
            rows == bounds[2] \div threads + 1
            height == w.bounds[2]
        IN  /\ bounds[1] > 0
            /\ w.bounds[1] = bounds[1]
            /\ w.start = b.start /\ w.len = b.len
            /\ height = b.len \div bounds[1]
            /\ b.len = bounds[1] * height
            /\ 1 <= height /\ height <= rows
            /\ b.start = bounds[1] * (rows * (i - 1))
            /\ BandTop(i - 1) = rows * (i - 1)
            /\ height < rows => i = Len(bands)
            /\ w.pc # "panicked"
    /\ main_render.pc # "panicked"
    /\ main_render.pc # "none" => main_render.len = main_render.bounds[1] * main_render.bounds[2]

\* C10's case: a worker past the assertion on a last band shorter than the others.
C10_Witness ==
    \E i \in 2..Len(workers) :
        /\ workers[i].pc = "loop"
        /\ i = Len(bands)
        /\ workers[i].bounds[2] < bounds[2] \div threads + 1

(***************************************************************************)
(* Properties of parse_pair, checked under SpecParse.                      *)
(***************************************************************************)
\* The positions of the separator in s.
Occurrences(s, separator) == {i \in 1..Len(s) : s[i] = separator}

Max(a, b) == IF a < b THEN b ELSE a

\* The spacing of the format's values at the magnitude of v.
UlpOf(v) == Quantum(Abs(v), MantLimit, 1)

\* The pitch between n steps across [lo, hi] is at least 8 ulps of the larger end.
Resolved(lo, hi, n) == hi - lo >= 8 * n * UlpOf(Max(Abs(lo), Abs(hi)))

\* The viewport invariant of the data model.
ViewportOrdered(ul, lr) == ul.x < lr.x /\ ul.y > lr.y

\* The formula of the mapper, each operation rounded, and the two fixed points
\* of the contract: pixel (0, 0), and the call of test_pixel_to_point.
MapperFormula(c, pt) ==
    /\ pt.x = F64Add(c.upper_left.x,
                     F64Div(F64Mul(F64FromUsize(c.p[1]), F64Sub(c.lower_right.x, c.upper_left.x)),
                            F64FromUsize(c.bounds[1])))
    /\ pt.y = F64Sub(c.upper_left.y,
                     F64Div(F64Mul(F64FromUsize(c.p[2]), F64Sub(c.upper_left.y, c.lower_right.y)),
                            F64FromUsize(c.bounds[2])))
    /\ c.p = <<0, 0>> => pt = c.upper_left
    /\ c = MapTestCall => pt = Point(0 - Scale \div 2, 0 - Scale \div 2)

\* The y of row py, all else as in call c.
RowY(c, py) == pixel_to_point(c.bounds, <<c.p[1], py>>, c.upper_left, c.lower_right).y

\* The x of column px, all else as in call c.
ColX(c, px) == pixel_to_point(c.bounds, <<px, c.p[2]>>, c.upper_left, c.lower_right).x

\* C8 as stated: the formula; pixel (0, 0) maps to upper_left; a larger row index
\* gives a smaller y; pixel (W-1, H-1) does not reach lower_right; the test call
\* gives exactly (-0.5, -0.5).  Stated for the viewports of the data model's
\* invariant (upper_left.x < lower_right.x, upper_left.y > lower_right.y).
C8_MapperStrict ==
    (call.fn = "pixel_to_point" /\ ret # <<>>) =>
        LET pt == ret[1]
        IN  /\ MapperFormula(call, pt)
            /\ ViewportOrdered(call.upper_left, call.lower_right) =>
                /\ \A py \in 0..call.bounds[2] : py > call.p[2] => RowY(call, py) < pt.y
                /\ call.p = <<call.bounds[1] - 1, call.bounds[2] - 1>> =>
                        pt.x < call.lower_right.x /\ pt.y > call.lower_right.y

\* C8 as amended: the formula, rounded; pixel (0, 0) maps to upper_left; on an
\* ordered viewport a larger row index never gives a larger y and a larger
\* column index never a smaller x; where the pixel pitch is at least 8 ulps of
\* the corner coordinates, a larger row index gives a strictly smaller y and
\* pixel (W-1, H-1) stays strictly short of lower_right; the test call gives
\* exactly (-0.5, -0.5).
C8_MapperContract ==
    (call.fn = "pixel_to_point" /\ ret # <<>>) =>
        LET pt == ret[1]
            ul == call.upper_left
            lr == call.lower_right
            w == call.bounds[1]
            h == call.bounds[2]
        IN  /\ MapperFormula(call, pt)
            /\ ViewportOrdered(ul, lr) =>
                /\ \A py \in 0..h : py > call.p[2] => RowY(call, py) <= pt.y
                /\ \A px \in 0..w : px > call.p[1] => ColX(call, px) >= pt.x
                /\ Resolved(lr.y, ul.y, h) =>
                    /\ \A py \in 0..h : py > call.p[2] => RowY(call, py) < pt.y
                    /\ call.p[2] = h - 1 => pt.y > lr.y
                /\ Resolved(ul.x, lr.x, w) =>
                    /\ \A px \in 0..w : px > call.p[1] => ColX(call, px) > pt.x
                    /\ call.p[1] = w - 1 => pt.x < lr.x

\* C8's case: the last pixel of an image of several rows and columns mapped on a
\* well-resolved ordered viewport.
C8_Witness ==
    /\ call.fn = "pixel_to_point"
    /\ ret # <<>>
    /\ call.bounds[1] >= 2 /\ call.bounds[2] >= 2
    /\ call.p = <<call.bounds[1] - 1, call.bounds[2] - 1>>
    /\ ViewportOrdered(call.upper_left, call.lower_right)
    /\ Resolved(call.lower_right.y, call.upper_left.y, call.bounds[2])
    /\ Resolved(call.upper_left.x, call.lower_right.x, call.bounds[1])
    /\ ret[1].x < call.lower_right.x
    /\ ret[1].y > call.lower_right.y

(***************************************************************************)
(* Properties of escapes, checked under SpecEsc.                           *)
(***************************************************************************)
\* |z|^2 > 4 in exact arithmetic
ExactNormAbove4(z) == z.re * z.re + z.im * z.im > 4 * Scale * Scale

\* |z|^2 > 4 as z.norm_sqr() > 4.0 computes it
RoundedNormAbove4(z) == F64Add(F64Mul(z.re, z.re), F64Mul(z.im, z.im)) > F64Lit(4)

LastOr0(orb) == IF orb = <<>> THEN Complex(0, 0) ELSE orb[Len(orb)]

\* The orbit of 0 under z <- z * z + c: orb extended by up to n iterates, ending
\* with the first one whose computed squared norm exceeds 4.
RECURSIVE OrbitExtend(_, _, _)
OrbitExtend(orb, c, n) ==
    IF n = 0 \/ (orb # <<>> /\ RoundedNormAbove4(LastOr0(orb))) THEN orb
    ELSE IF n = 1 THEN Append(orb, ComplexAdd(ComplexMul(LastOr0(orb), LastOr0(orb)), c))
    ELSE LET half == OrbitExtend(orb, c, n \div 2)
         IN  OrbitExtend(half, c, n - n \div 2)

Orbit(c, n) == OrbitExtend(<<>>, c, n)

\* e is "escaped at the first iteration whose z passes the test", or "bounded"
\* when none of the first limit iterations does; exact chooses the test.
FirstEscapeIs(e, c, limit, exact) ==
    LET orb == Orbit(c, limit)
        above(j) == IF exact THEN ExactNormAbove4(orb[j]) ELSE RoundedNormAbove4(orb[j])
    IN  IF e.some
        THEN /\ 0 <= e.val /\ e.val < limit
             /\ e.val + 1 <= Len(orb)
             /\ above(e.val + 1)
             /\ \A j \in 1..e.val : ~above(j)
        ELSE /\ Len(orb) = limit
             /\ \A j \in 1..limit : ~above(j)

\* The intensity render stores: 0 for bounded, 255 - i for escaped at i, in [1, 255].
IntensityIs(e, v) ==
    /\ e.some => v = 255 - e.val /\ v \in 1..255
    /\ ~e.some => v = 0

\* C9 as stated: escapes(c, L) returns escaped-at-i only with 0 <= i < L, i the
\* first iteration at which |z|^2 > 4, and bounded otherwise; c = 0 is bounded
\* for every positive L; any c with |c|^2 > 4 escapes at iteration 0; with
\* L = 255 the intensity is 0 for bounded and 255 - i in [1, 255] otherwise.
C9_EscapesExact ==
    (call.fn = "escapes" /\ ret # <<>>) =>
        LET e == ret[1]
        IN  /\ FirstEscapeIs(e, call.c, call.limit, TRUE)
            /\ (call.c = Complex(0, 0) /\ call.limit > 0) => e = None
            /\ (ExactNormAbove4(call.c) /\ call.limit > 0) => e = Some(0)
            /\ Len(ret) = 2 => IntensityIs(e, ret[2])

\* C9 as amended: the same, the threshold test being the one the code computes,
\* z.norm_sqr() > 4.0 with its products and its sum rounded.
C9_EscapesContract ==
    (call.fn = "escapes" /\ ret # <<>>) =>
        LET e == ret[1]
        IN  /\ FirstEscapeIs(e, call.c, call.limit, FALSE)
            /\ (call.c = Complex(0, 0) /\ call.limit > 0) => e = None
            /\ (RoundedNormAbove4(call.c) /\ call.limit > 0) => e = Some(0)
            /\ Len(ret) = 2 => IntensityIs(e, ret[2])

\* C9's case: a point that escaped at iteration 3 or later under the limit of
\* render, and the intensity stored for it.
C9_Witness ==
    /\ call.fn = "escapes"
    /\ call.limit = RenderLimit
    /\ Len(ret) = 2
    /\ ret[1].some
    /\ ret[1].val >= 3
    /\ ret[2] = 255 - ret[1].val

====
